---- MODULE Spec2Model ----
(***************************************************************************)
(* PEP 0 index generation (pep_zero_generator/writer.py).                  *)
(*                                                                         *)
(* The module models the three pure functions of the writer and the two    *)
(* table loops of PEPZeroWriter.write_pep0 that use them:                  *)
(*   _classify_peps            the nine category lists        (Spec)       *)
(*   the Numerical Index loop  rows and blank lines           (SpecIndex)  *)
(*   _verify_email_addresses   one email per author           (SpecEmail)  *)
(*   _sort_authors / _author_sort_by, Authors/Owners rows     (SpecAuthors)*)
(*                                                                         *)
(* A Python str that the code only compares for equality (status, type)    *)
(* is a TLA+ string.  A title is the sequence of its words.  An author     *)
(* name is the sequence of its Unicode code points, because the sort key   *)
(* is computed character by character.                                     *)
(***************************************************************************)
EXTENDS Integers, Sequences, FiniteSets

VARIABLES
    pc,                 \* position of the running call
    peps,               \* the list[PEP] handed to the function
    classified,         \* the tuple returned by _classify_peps
    error,              \* the exception raised, "" when none
    _output,            \* PEPZeroWriter._output, the lines written so far
    prev_pep,           \* write_pep0: number of the previously written PEP
    idx,                \* loop position: the PEP (or the sorted author) in turn
    jdx,                \* loop position: the author of peps[idx] in turn
    authors_dict,       \* _verify_email_addresses: author -> set of emails
    valid_authors_dict, \* the mapping returned by _verify_email_addresses
    sorted_authors      \* write_pep0: the list _sort_authors returned

vars == <<pc, peps, classified, error, _output, prev_pep, idx, jdx,
          authors_dict, valid_authors_dict, sorted_authors>>

-----------------------------------------------------------------------------
(* Bounds of the model *)

\* longest list of PEPs handed to a function
MaxPeps == 2
\* largest PEP number in the Numerical Index
MaxNumber == 4
\* longest list of PEPs in the Numerical Index
MaxIndexLen == 3
\* most authors of one PEP (email check)
MaxAuthors == 1
\* most words of a surname
MaxWords == 2
\* most entries of the author mapping that is sorted
MaxEntries == 2

-----------------------------------------------------------------------------
(* Helpers on sequences *)

Range(s) == {s[k] : k \in 1..Len(s)}

SeqsUpTo(S, n) == UNION {[1..k -> S] : k \in 0..n}

\* text in seq: the words of `text` occur consecutively in `seq`
Contains(seq, text) ==
    \E k \in 0..(Len(seq) - Len(text)) :
        \A j \in 1..Len(text) : seq[k + j] = text[j]

-----------------------------------------------------------------------------
(* PEPs *)

PepTypes == {"Process", "Informational", "Standards Track"}

\* the statuses the rules of _classify_peps name, and one they do not name
NamedStatuses == {"Draft", "Deferred", "Active", "Withdrawn", "Rejected",
                  "Incomplete", "Superseded", "Provisional", "Accepted", "Final"}
Statuses == NamedStatuses \cup {"April Fool!"}

ReleaseSchedule == <<"Release", "Schedule">>
Titles == { <<"Python", "3.9", "Release", "Schedule">>,
            <<"Schedule", "of", "Release", "Managers">> }

PEP(number, pep_type, status, title, authors) ==
    [number |-> number, pep_type |-> pep_type, status |-> status,
     title |-> title, authors |-> authors]

\* PEP.__lt__: PEPs are ordered by number
PepLt(a, b) == a.number < b.number

\* sorted(iterable of PEP) over a set: ascending by PEP.__lt__
RECURSIVE sorted(_)
sorted(S) ==
    IF S = {} THEN <<>>
    ELSE LET m == CHOOSE p \in S : \A q \in S : ~PepLt(q, p)
         IN  <<m>> \o sorted(S \ {m})

-----------------------------------------------------------------------------
(* _classify_peps *)

\* remaining -= {pep for pep in lst}
Minus(remaining, lst) == remaining \ Range(lst)

\* dead += sorted(...), historical += sorted(...)
ExtendReplaces(lst, batch) == batch
Extend(lst, batch) == lst \o batch

IsOpen(pep) == pep.status = "Draft"

IsDeferredNotProcess(pep) == pep.status = "Deferred" /\ pep.pep_type # "Process"
IsDeferred(pep) == pep.status = "Deferred"

IsMeta(pep) == pep.pep_type = "Process" /\ pep.status = "Active"

IsProcessDeadWithdrawnOnly(pep) ==
    pep.pep_type = "Process" /\ pep.status \in {"Withdrawn"}
IsProcessDead(pep) ==
    pep.pep_type = "Process" /\ pep.status \in {"Withdrawn", "Rejected"}

IsProcess(pep) == pep.pep_type = "Process"

IsDead(pep) ==
    pep.status \in {"Rejected", "Withdrawn", "Incomplete", "Superseded"}

IsInfoByTitleOnly(pep) ==
    pep.pep_type = "Informational" /\ ~Contains(pep.title, ReleaseSchedule)
IsInfo(pep) ==
    /\ pep.pep_type = "Informational"
    /\ (pep.status = "Active" \/ ~Contains(pep.title, ReleaseSchedule))

IsInformational(pep) == pep.pep_type = "Informational"

IsProvisional(pep) == pep.status = "Provisional"

IsAcceptedOnly(pep) == pep.status \in {"Accepted"}
IsAccepted(pep) == pep.status \in {"Accepted", "Active"}

IsFinished(pep) == pep.status = "Final"

NoLists ==
    [meta |-> <<>>, info |-> <<>>, provisional |-> <<>>, accepted |-> <<>>,
     open_ |-> <<>>, finished |-> <<>>, historical |-> <<>>,
     deferred |-> <<>>, dead |-> <<>>]

CategoryNames == DOMAIN NoLists

\* The function, statement by statement; r0..r11 are the successive values
\* of `remaining`.  The result has the nine lists and what is left unsorted.
_classify_peps(ps) ==
    LET r0 == Range(ps)
        open_ == sorted({pep \in r0 : IsOpen(pep)})
        r1 == Minus(r0, open_)
        deferred == sorted({pep \in r1 : IsDeferred(pep)})
        r2 == Minus(r1, deferred)
        meta == sorted({pep \in r2 : IsMeta(pep)})
        r3 == Minus(r2, meta)
        dead1 == sorted({pep \in r3 : IsProcessDead(pep)})
        r4 == Minus(r3, dead1)
        historical1 == sorted({pep \in r4 : IsProcess(pep)})
        r5 == Minus(r4, historical1)
        dead == Extend(dead1, sorted({pep \in r5 : IsDead(pep)}))
        r6 == Minus(r5, dead)
        info == sorted({pep \in r6 : IsInfo(pep)})
        r7 == Minus(r6, info)
        historical ==
            Extend(historical1, sorted({pep \in r7 : IsInformational(pep)}))
        r8 == Minus(r7, historical)
        provisional == sorted({pep \in r8 : IsProvisional(pep)})
        r9 == Minus(r8, provisional)
        accepted == sorted({pep \in r9 : IsAccepted(pep)})
        r10 == Minus(r9, accepted)
        finished == sorted({pep \in r10 : IsFinished(pep)})
        r11 == Minus(r10, finished)
    IN  [remaining |-> r11,
         lists |-> [meta |-> meta, info |-> info, provisional |-> provisional,
                    accepted |-> accepted, open_ |-> open_,
                    finished |-> finished, historical |-> historical,
                    deferred |-> deferred, dead |-> dead]]

-----------------------------------------------------------------------------
(* Specification of _classify_peps *)

\* What the classification reads of a PEP besides its number
Shapes == PepTypes \X Statuses \X Titles

\* The caller hands over the PEPs in ascending number; one PEP file per
\* number, so two entries with the same number are the same PEP object
\* (and so have the same fields).  PEPs here have no authors.
NumberLists ==
    {ns \in SeqsUpTo(1..MaxPeps, MaxPeps) :
        \A j, k \in 1..Len(ns) : j < k => ns[j] <= ns[k]}

ClassifyInput(ns, shape) ==
    [j \in 1..Len(ns) |->
        PEP(ns[j], shape[ns[j]][1], shape[ns[j]][2], shape[ns[j]][3], <<>>)]

Idle ==
    /\ classified = NoLists
    /\ error = ""
    /\ _output = <<>>
    /\ prev_pep = 0
    /\ idx = 1
    /\ jdx = 1
    /\ authors_dict = <<>>
    /\ valid_authors_dict = <<>>
    /\ sorted_authors = <<>>

Init ==
    /\ pc = "classify"
    /\ \E ns \in NumberLists : \E shape \in [Range(ns) -> Shapes] :
           peps = ClassifyInput(ns, shape)
    /\ Idle

\* for pep in remaining: raise PEPError("unsorted ...")
ClassifyRaise ==
    /\ pc = "classify"
    /\ _classify_peps(peps).remaining # {}
    /\ pc' = "raised"
    /\ error' = "PEPError"
    /\ UNCHANGED <<peps, classified, _output, prev_pep, idx, jdx,
                   authors_dict, valid_authors_dict, sorted_authors>>

\* return meta, info, provisional, accepted, open_, finished, historical, ...
ClassifyReturn ==
    /\ pc = "classify"
    /\ _classify_peps(peps).remaining = {}
    /\ pc' = "returned"
    /\ classified' = _classify_peps(peps).lists
    /\ UNCHANGED <<peps, error, _output, prev_pep, idx, jdx,
                   authors_dict, valid_authors_dict, sorted_authors>>

Next == ClassifyRaise \/ ClassifyReturn

Spec == Init /\ [][Next]_vars

-----------------------------------------------------------------------------
(* Claims about _classify_peps, checked under Spec *)

Lists == classified

InList(pep, c) == pep \in Range(Lists[c])

\* where a PEP occurs in the returned tuple: (list, position) pairs
Occurrences(pep) ==
    {ck \in CategoryNames \X (1..MaxPeps + 1) :
        ck[2] <= Len(Lists[ck[1]]) /\ Lists[ck[1]][ck[2]] = pep}

\* C1: when _classify_peps returns, every distinct PEP of the input occurs in
\* exactly one of the nine lists, exactly once there, and the lists hold
\* nothing that was not in the input.
C1_Partition ==
    pc = "returned" =>
        /\ \A pep \in Range(peps) : Cardinality(Occurrences(pep)) = 1
        /\ \A c \in CategoryNames : Range(Lists[c]) \subseteq Range(peps)

C1_Witness ==
    /\ pc = "returned"
    /\ Len(peps) = 2 /\ peps[1] # peps[2]
    /\ Len(Lists.dead) = 1 /\ Len(Lists.historical) = 1

\* a PEP no category rule matches, as the claim describes it
Unmatched(pep) ==
    /\ pep.pep_type \notin {"Process", "Informational"}
    /\ pep.status \notin {"Draft", "Deferred", "Rejected", "Withdrawn",
                          "Incomplete", "Superseded", "Provisional",
                          "Accepted", "Active", "Final"}

\* C2: _classify_peps raises PEPError and returns no lists if and only if
\* some input PEP is of a type other than Process and Informational and has
\* a status outside the ten statuses the rules name.
C2_RaisesIffUnmatched ==
    pc # "classify" =>
        /\ (pc = "raised") <=> (\E pep \in Range(peps) : Unmatched(pep))
        /\ pc = "raised" => error = "PEPError" /\ classified = NoLists
        /\ pc = "returned" => error = ""

C2_Witness ==
    /\ pc = "raised"
    /\ Len(peps) = 2
    /\ peps[1].pep_type = "Process" /\ peps[1].status = "April Fool!"
    /\ peps[2].pep_type = "Standards Track" /\ peps[2].status = "April Fool!"

\* C5: Draft PEPs are exactly the open list and Deferred PEPs exactly the
\* deferred list, whatever their type and title.
C5_StatusFirst ==
    pc = "returned" =>
        /\ \A pep \in Range(peps) :
              /\ pep.status = "Draft" <=> InList(pep, "open_")
              /\ pep.status = "Deferred" <=> InList(pep, "deferred")
        /\ \A pep \in Range(Lists.open_) : pep.status = "Draft"
        /\ \A pep \in Range(Lists.deferred) : pep.status = "Deferred"

C5_Witness ==
    /\ pc = "returned"
    /\ \E pep \in Range(Lists.open_) :
          pep.pep_type = "Process" /\ Contains(pep.title, ReleaseSchedule)
    /\ \E pep \in Range(Lists.deferred) : pep.pep_type = "Informational"

\* C6: a Process PEP that is neither Draft nor Deferred goes to meta when
\* Active, to dead when Withdrawn or Rejected, and to historical otherwise;
\* no Process PEP is in info, provisional, accepted or finished.
C6_ProcessByType ==
    pc = "returned" =>
        \A pep \in Range(peps) : pep.pep_type = "Process" =>
            /\ pep.status \notin {"Draft", "Deferred"} =>
                  /\ pep.status = "Active" => InList(pep, "meta")
                  /\ pep.status \in {"Withdrawn", "Rejected"} =>
                        InList(pep, "dead")
                  /\ pep.status \notin {"Active", "Withdrawn", "Rejected"} =>
                        InList(pep, "historical")
            /\ \A c \in {"info", "provisional", "accepted", "finished"} :
                  ~InList(pep, c)

C6_Witness ==
    /\ pc = "returned"
    /\ \E pep \in Range(Lists.historical) :
          pep.pep_type = "Process" /\ pep.status = "Superseded"
    /\ \E pep \in Range(Lists.dead) :
          pep.pep_type = "Process" /\ pep.status = "Rejected"

\* C7: an Informational PEP whose status is not Draft, Deferred, Rejected,
\* Withdrawn, Incomplete or Superseded is in info when it is Active or its
\* title does not contain "Release Schedule", and in historical otherwise;
\* no Informational PEP is in provisional, accepted or finished.
C7_Informational ==
    pc = "returned" =>
        \A pep \in Range(peps) : pep.pep_type = "Informational" =>
            /\ pep.status \notin {"Draft", "Deferred", "Rejected", "Withdrawn",
                                  "Incomplete", "Superseded"} =>
                  IF pep.status = "Active"
                     \/ ~Contains(pep.title, ReleaseSchedule)
                  THEN InList(pep, "info")
                  ELSE InList(pep, "historical")
            /\ \A c \in {"provisional", "accepted", "finished"} :
                  ~InList(pep, c)

C7_Witness ==
    /\ pc = "returned"
    /\ \E pep \in Range(Lists.info) :
          pep.status = "Active" /\ Contains(pep.title, ReleaseSchedule)
    /\ \E pep \in Range(Lists.historical) :
          pep.pep_type = "Informational" /\ pep.status = "Final"

Ascending(lst) ==
    \A j, k \in 1..Len(lst) : j < k => lst[j].number <= lst[k].number

\* C9: each of the nine returned lists is in ascending order of PEP number,
\* the dead and historical lists included.
C9_AllListsAscending ==
    pc = "returned" => \A c \in CategoryNames : Ascending(Lists[c])

-----------------------------------------------------------------------------
(* write_pep0: the Numerical Index *)

\* a line of _output that is not a table row
Line(kind) == [kind |-> kind, number |-> 0]

\* self.output(column_format(**pep.pep(title_length=title_length))): the row
\* of a PEP carries its number
Row(pep) == [kind |-> "row", number |-> pep.number]

\* emit_title(text, anchor): anchor, text, underline, newline
emit_title == <<Line("anchor"), Line("title"), Line("underline"), Line("blank")>>

\* emit_column_headers(): separator, header, separator
emit_column_headers == <<Line("separator"), Line("header"), Line("separator")>>

\* if pep.number - prev_pep > 1
GapAtLeastOne(pep, prev) == pep.number - prev >= 1
Gap(pep, prev) == pep.number - prev > 1

\* The index is written for any list: numbers in any order, with repeats.
IndexPEPs == {PEP(n, "Standards Track", "Final", <<"Title">>, <<>>) :
                 n \in 1..MaxNumber}

InitIndex ==
    /\ pc = "index"
    /\ \E k \in 0..MaxIndexLen : peps \in [1..k -> IndexPEPs]
    /\ Idle

\* emit_title("Numerical Index", ...); emit_column_headers(); prev_pep = 0
IndexBegin ==
    /\ pc = "index"
    /\ _output' = _output \o emit_title \o emit_column_headers
    /\ prev_pep' = 0
    /\ idx' = 1
    /\ pc' = "index_loop"
    /\ UNCHANGED <<peps, classified, error, jdx, authors_dict,
                   valid_authors_dict, sorted_authors>>

\* one turn of `for pep in peps`
IndexRow ==
    /\ pc = "index_loop"
    /\ idx <= Len(peps)
    /\ LET pep == peps[idx]
       IN  /\ _output' = IF Gap(pep, prev_pep)
                         THEN _output \o <<Line("blank"), Row(pep)>>
                         ELSE Append(_output, Row(pep))
           /\ prev_pep' = pep.number
    /\ idx' = idx + 1
    /\ UNCHANGED <<pc, peps, classified, error, jdx, authors_dict,
                   valid_authors_dict, sorted_authors>>

\* after the loop: emit_table_separator(); emit_newline()
IndexEnd ==
    /\ pc = "index_loop"
    /\ idx > Len(peps)
    /\ _output' = _output \o <<Line("separator"), Line("blank")>>
    /\ pc' = "index_done"
    /\ UNCHANGED <<peps, classified, error, prev_pep, idx, jdx, authors_dict,
                   valid_authors_dict, sorted_authors>>

NextIndex == IndexBegin \/ IndexRow \/ IndexEnd

SpecIndex == InitIndex /\ [][NextIndex]_vars

\* positions of the table rows in _output, and the rows in order
RowPositions == {k \in 1..Len(_output) : _output[k].kind = "row"}
RowsWritten == SelectSeq(_output, LAMBDA l : l.kind = "row")
\* the row at position k is the RowOrdinal(k)-th row
RowOrdinal(k) == Cardinality({m \in RowPositions : m <= k})

\* C8: the Numerical Index has one row per element of the input list, in the
\* order of the list, and a blank line stands immediately before a PEP's row
\* exactly when its number exceeds the previous PEP's number (0 before the
\* first row) by more than 1.
C8_NumericalIndex ==
    pc \in {"index_loop", "index_done"} =>
        /\ pc = "index_done" => Len(RowsWritten) = Len(peps)
        /\ Len(RowsWritten) = idx - 1
        /\ \A j \in 1..Len(RowsWritten) : RowsWritten[j] = Row(peps[j])
        /\ \A k \in RowPositions :
              LET j == RowOrdinal(k)
                  before == IF j = 1 THEN 0 ELSE peps[j - 1].number
              IN  (_output[k - 1].kind = "blank")
                      <=> (peps[j].number - before > 1)

C8_Witness ==
    /\ pc = "index_done"
    /\ Len(peps) = 3
    /\ peps[1].number = 1 /\ peps[2].number = 4 /\ peps[3].number = 2
    /\ \E k \in RowPositions : _output[k - 1].kind = "blank"

-----------------------------------------------------------------------------
(* Authors and _verify_email_addresses *)

Author(last_first, email) == [last_first |-> last_first, email |-> email]

\* Author.__eq__ / __hash__: two Author objects are equal when their
\* last_first names are equal, whatever their emails
AuthorEq(a, b) == a.last_first = b.last_first

\* A dict keyed by Author is the sequence of its entries in insertion order;
\* the key of an entry is the Author object that was inserted first.
HasKey(dict, author) == \E k \in 1..Len(dict) : AuthorEq(dict[k].author, author)
KeyIndex(dict, author) ==
    CHOOSE k \in 1..Len(dict) : AuthorEq(dict[k].author, author)

\* authors_dict[author] = {author.email} if author.email else set()
FirstEmails(author) == IF author.email # "" THEN {author.email} ELSE {}

\* if not author.email: continue / authors_dict[author].add(author.email)
AddEmailAlways(emails, author) == emails \cup {author.email}
AddEmail(emails, author) ==
    IF author.email = "" THEN emails ELSE emails \cup {author.email}

\* the body of `for author in pep.authors`
VisitAuthor(dict, author) ==
    IF ~HasKey(dict, author)
    THEN Append(dict, [author |-> author, emails |-> FirstEmails(author)])
    ELSE LET k == KeyIndex(dict, author)
         IN  [dict EXCEPT ![k].emails = AddEmail(@, author)]

\* too_many_emails: the entries with len(emails) > 1
too_many_emails(dict) ==
    SelectSeq(dict, LAMBDA e : Cardinality(e.emails) > 1)

\* next(iter(emails), "")
OnlyEmail(emails) == IF emails = {} THEN "" ELSE CHOOSE e \in emails : TRUE

\* valid_authors_dict: the other entries, each with its email or ""
ValidEntries(dict) ==
    LET valid == SelectSeq(dict, LAMBDA e : Cardinality(e.emails) <= 1)
    IN  [k \in 1..Len(valid) |->
            [author |-> valid[k].author, email |-> OnlyEmail(valid[k].emails)]]

\* code points of "f" and of "É" (E acute, upper case)
EmailNames == {<<102>>, <<201>>}
Emails == {"", "a@x", "b@x"}
EmailAuthors == {Author(n, e) : n \in EmailNames, e \in Emails}
EmailPEPs ==
    {PEP(1, "Standards Track", "Final", <<"Title">>, as) :
        as \in SeqsUpTo(EmailAuthors, MaxAuthors)}

InitEmail ==
    /\ pc = "verify"
    /\ \E k \in 0..MaxPeps : peps \in [1..k -> EmailPEPs]
    /\ Idle

\* for author in pep.authors: one author
EmailVisit ==
    /\ pc = "verify"
    /\ idx <= Len(peps)
    /\ jdx <= Len(peps[idx].authors)
    /\ authors_dict' = VisitAuthor(authors_dict, peps[idx].authors[jdx])
    /\ jdx' = jdx + 1
    /\ UNCHANGED <<pc, peps, classified, error, _output, prev_pep, idx,
                   valid_authors_dict, sorted_authors>>

\* for pep in peps: the authors of this PEP are done, on to the next PEP
EmailNextPep ==
    /\ pc = "verify"
    /\ idx <= Len(peps)
    /\ jdx > Len(peps[idx].authors)
    /\ idx' = idx + 1
    /\ jdx' = 1
    /\ UNCHANGED <<pc, peps, classified, error, _output, prev_pep,
                   authors_dict, valid_authors_dict, sorted_authors>>

\* if too_many_emails: raise ValueError(...)
EmailRaise ==
    /\ pc = "verify"
    /\ idx > Len(peps)
    /\ too_many_emails(authors_dict) # <<>>
    /\ pc' = "raised"
    /\ error' = "ValueError"
    /\ UNCHANGED <<peps, classified, _output, prev_pep, idx, jdx,
                   authors_dict, valid_authors_dict, sorted_authors>>

\* return valid_authors_dict
EmailReturn ==
    /\ pc = "verify"
    /\ idx > Len(peps)
    /\ too_many_emails(authors_dict) = <<>>
    /\ pc' = "returned"
    /\ valid_authors_dict' = ValidEntries(authors_dict)
    /\ UNCHANGED <<peps, classified, error, _output, prev_pep, idx, jdx,
                   authors_dict, sorted_authors>>

NextEmail == EmailVisit \/ EmailNextPep \/ EmailRaise \/ EmailReturn

SpecEmail == InitEmail /\ [][NextEmail]_vars

\* every author occurrence of the input, and the names that occur
AuthorOccurrences ==
    UNION {Range(peps[k].authors) : k \in 1..Len(peps)}
NamesOccurring == {a.last_first : a \in AuthorOccurrences}
\* the distinct non-empty emails an author occurs with
NonEmptyEmails(name) ==
    {a.email : a \in {b \in AuthorOccurrences : b.last_first = name}} \ {""}

\* C3: _verify_email_addresses raises ValueError exactly when some author
\* occurs with two or more distinct non-empty emails; otherwise the mapping
\* returned has exactly the occurring authors as keys, each mapped to its one
\* non-empty email, or to "" when all its occurrences have an empty email.
C3_OneEmailPerAuthor ==
    pc \in {"raised", "returned"} =>
        /\ (pc = "raised") <=>
              (\E n \in NamesOccurring : Cardinality(NonEmptyEmails(n)) >= 2)
        /\ pc = "raised" => error = "ValueError" /\ valid_authors_dict = <<>>
        /\ pc = "returned" =>
              /\ error = ""
              /\ {e.author.last_first : e \in Range(valid_authors_dict)}
                    = NamesOccurring
              /\ \A j, k \in 1..Len(valid_authors_dict) :
                    AuthorEq(valid_authors_dict[j].author,
                             valid_authors_dict[k].author) => j = k
              /\ \A e \in Range(valid_authors_dict) :
                    IF NonEmptyEmails(e.author.last_first) = {}
                    THEN e.email = ""
                    ELSE NonEmptyEmails(e.author.last_first) = {e.email}

\* an author met first without an email and then with one is mapped to the
\* email, under the Author object that was met first
C3_Witness ==
    /\ pc = "returned"
    /\ Len(peps) = 2
    /\ peps[1].authors = <<Author(<<102>>, "")>>
    /\ peps[2].authors = <<Author(<<102>>, "a@x")>>
    /\ valid_authors_dict = <<[author |-> Author(<<102>>, ""), email |-> "a@x"]>>

-----------------------------------------------------------------------------
(* Strings as sequences of code points: the str methods _author_sort_by uses *)

\* str.isupper() of one character: A-Z and the Latin-1 capitals
isupper(c) == c \in 65..90 \/ (c \in 192..222 /\ c # 215)

\* str.lower(): each capital becomes its small letter
lower(s) == [k \in 1..Len(s) |-> IF isupper(s[k]) THEN s[k] + 32 ELSE s[k]]

\* the characters str.split() splits on
IsSpace(c) == c \in {9, 10, 11, 12, 13, 32}

\* least member of a set of positions, or `otherwise` when it is empty
First(S, otherwise) ==
    IF S = {} THEN otherwise ELSE CHOOSE k \in S : \A m \in S : k <= m

\* surname, *_ = last_first.split(","): the text before the first comma
FirstField(s) ==
    SubSeq(s, 1, First({k \in 1..Len(s) : s[k] = 44}, Len(s) + 1) - 1)

\* str.split(): the maximal runs of non-whitespace characters
RECURSIVE split(_)
split(s) ==
    LET b == First({k \in 1..Len(s) : ~IsSpace(s[k])}, Len(s) + 1)
        e == First({k \in b..Len(s) : IsSpace(s[k])}, Len(s) + 1)
    IN  IF b > Len(s) THEN <<>>
        ELSE <<SubSeq(s, b, e - 1)>> \o split(SubSeq(s, e, Len(s)))

\* " ".join(parts)
RECURSIVE join(_)
join(parts) ==
    IF parts = <<>> THEN <<>>
    ELSE IF Len(parts) = 1 THEN parts[1]
    ELSE parts[1] \o <<32>> \o join(Tail(parts))

\* unicodedata.normalize("NFKD", s) on ASCII and Latin-1 letters: an accented
\* letter becomes its base letter followed by the combining accent (here
\* the acute accent, U+0301); an ASCII character is unchanged
Decompose(c) ==
    IF c = 201 THEN <<69, 769>>
    ELSE IF c = 233 THEN <<101, 769>>
    ELSE <<c>>

RECURSIVE NFKD(_)
NFKD(s) == IF s = <<>> THEN <<>> ELSE Decompose(Head(s)) \o NFKD(Tail(s))

\* str < str: lexicographic by code point
RECURSIVE StrLt(_, _)
StrLt(a, b) ==
    IF b = <<>> THEN FALSE
    ELSE IF a = <<>> THEN TRUE
    ELSE IF Head(a) # Head(b) THEN Head(a) < Head(b)
    ELSE StrLt(Tail(a), Tail(b))

StrLeq(a, b) == ~StrLt(b, a)

-----------------------------------------------------------------------------
(* _author_sort_by and _sort_authors *)

\* for i, part in enumerate(surname_parts): if part[0].isupper(): ...
\* index of the first part that starts with a capital, 0 when there is none
RECURSIVE FirstUpperPart(_, _)
FirstUpperPart(parts, i) ==
    IF i > Len(parts) THEN 0
    ELSE IF isupper(parts[i][1]) THEN i
    ELSE FirstUpperPart(parts, i + 1)

WholeSurnameKey(author) == NFKD(lower(FirstField(author.last_first)))
_author_sort_by(author) ==
    LET surname == FirstField(author.last_first)
        surname_parts == split(surname)
        i == FirstUpperPart(surname_parts, 1)
    IN  IF i # 0
        THEN NFKD(lower(join(SubSeq(surname_parts, i, Len(surname_parts)))))
        ELSE NFKD(lower(surname))

\* sorted(..., key=_author_sort_by) is stable: an author goes after every
\* author already placed whose key is not greater
RECURSIVE InsertByKey(_, _)
InsertByKey(lst, author) ==
    IF lst = <<>> THEN <<author>>
    ELSE IF StrLt(_author_sort_by(author), _author_sort_by(Head(lst)))
         THEN <<author>> \o lst
         ELSE <<Head(lst)>> \o InsertByKey(Tail(lst), author)

RECURSIVE SortedByKey(_)
SortedByKey(lst) ==
    IF lst = <<>> THEN <<>>
    ELSE InsertByKey(SortedByKey(SubSeq(lst, 1, Len(lst) - 1)), lst[Len(lst)])

\* sorted(authors_dict.keys(), key=_author_sort_by)
_sort_authors(dict) == SortedByKey([k \in 1..Len(dict) |-> dict[k].author])

-----------------------------------------------------------------------------
(* write_pep0: the Authors/Owners table *)

\* every author of every PEP, in the order the two loops meet them
RECURSIVE AllAuthors(_)
AllAuthors(ps) ==
    IF ps = <<>> THEN <<>> ELSE Head(ps).authors \o AllAuthors(Tail(ps))

RECURSIVE VisitAll(_, _)
VisitAll(dict, authors) ==
    IF authors = <<>> THEN dict
    ELSE VisitAll(VisitAuthor(dict, Head(authors)), Tail(authors))

\* the whole function: whether it raises, and the mapping it returns
_verify_email_addresses(ps) ==
    LET dict == VisitAll(<<>>, AllAuthors(ps))
    IN  [raises |-> too_many_emails(dict) # <<>>,
         valid |-> ValidEntries(dict)]

\* self.output(f"{author.last_first:{max_name_len}}  {authors_dict[author]}")
AuthorRowLine(dict, author) ==
    [kind |-> "row", last_first |-> author.last_first,
     email |-> dict[KeyIndex(dict, author)].email]

\* Names "Surname, f", where the surname has up to MaxWords words, each "f"
\* (lower case) or "É" (upper case), separated by one space; and the two
\* single-word names without a comma.
NameWords == {<<102>>, <<201>>}
Surnames == {join(ws) : ws \in SeqsUpTo(NameWords, MaxWords) \ {<<>>}}
Names == {sn \o <<44, 32, 102>> : sn \in Surnames} \cup NameWords
TableAuthors == {Author(n, e) : n \in Names, e \in Emails}

InitAuthors ==
    /\ pc = "authors"
    /\ \E k \in 0..MaxEntries : \E as \in [1..k -> TableAuthors] :
          peps = <<PEP(1, "Standards Track", "Final", <<"Title">>, as)>>
    /\ Idle

\* authors_dict = _verify_email_addresses(peps) raises ValueError
AuthorsVerifyRaise ==
    /\ pc = "authors"
    /\ _verify_email_addresses(peps).raises
    /\ pc' = "raised"
    /\ error' = "ValueError"
    /\ UNCHANGED <<peps, classified, _output, prev_pep, idx, jdx,
                   authors_dict, valid_authors_dict, sorted_authors>>

\* authors_dict = _verify_email_addresses(peps) returns the mapping
AuthorsVerify ==
    /\ pc = "authors"
    /\ ~_verify_email_addresses(peps).raises
    /\ valid_authors_dict' = _verify_email_addresses(peps).valid
    /\ pc' = "authors_table"
    /\ UNCHANGED <<peps, classified, error, _output, prev_pep, idx, jdx,
                   authors_dict, sorted_authors>>

\* max_name_len = max(len(author) for ...) of no author: max() raises
AuthorsNone ==
    /\ pc = "authors_table"
    /\ valid_authors_dict = <<>>
    /\ pc' = "raised"
    /\ error' = "ValueError"
    /\ UNCHANGED <<peps, classified, _output, prev_pep, idx, jdx,
                   authors_dict, valid_authors_dict, sorted_authors>>

\* emit_title("Authors/Owners", ...), separator, header, separator, and the
\* list the loop runs over: _sort_authors(authors_dict)
AuthorsBegin ==
    /\ pc = "authors_table"
    /\ valid_authors_dict # <<>>
    /\ _output' = _output \o emit_title
                    \o <<Line("separator"), Line("header"), Line("separator")>>
    /\ sorted_authors' = _sort_authors(valid_authors_dict)
    /\ idx' = 1
    /\ pc' = "authors_loop"
    /\ UNCHANGED <<peps, classified, error, prev_pep, jdx, authors_dict,
                   valid_authors_dict>>

\* one turn of `for author in _sort_authors(authors_dict)`
AuthorRow ==
    /\ pc = "authors_loop"
    /\ idx <= Len(sorted_authors)
    /\ _output' = Append(_output,
                         AuthorRowLine(valid_authors_dict, sorted_authors[idx]))
    /\ idx' = idx + 1
    /\ UNCHANGED <<pc, peps, classified, error, prev_pep, jdx, authors_dict,
                   valid_authors_dict, sorted_authors>>

\* after the loop: separator, newline, newline
AuthorsEnd ==
    /\ pc = "authors_loop"
    /\ idx > Len(sorted_authors)
    /\ _output' = _output \o <<Line("separator"), Line("blank"), Line("blank")>>
    /\ pc' = "authors_done"
    /\ UNCHANGED <<peps, classified, error, prev_pep, idx, jdx, authors_dict,
                   valid_authors_dict, sorted_authors>>

NextAuthors ==
    \/ AuthorsVerifyRaise \/ AuthorsVerify \/ AuthorsNone
    \/ AuthorsBegin \/ AuthorRow \/ AuthorsEnd

SpecAuthors == InitAuthors /\ [][NextAuthors]_vars

\* The key as the claim words it: the surname from its first word that starts
\* with a capital to its end, lower-cased; the whole lower-cased surname when
\* no word starts with a capital.
UpperWordStarts(s) ==
    {k \in 1..Len(s) : isupper(s[k]) /\ (k = 1 \/ IsSpace(s[k - 1]))}

KeyAsClaimed(last_first) ==
    LET surname == FirstField(last_first)
        starts == UpperWordStarts(surname)
    IN  IF starts = {} THEN lower(surname)
        ELSE lower(SubSeq(surname, First(starts, 0), Len(surname)))

\* The same text with its words joined by single spaces where a word starts
\* with a capital, then compatibility-decomposed (NFKD).
KeyNormalized(last_first) ==
    LET surname == FirstField(last_first)
        starts == UpperWordStarts(surname)
    IN  IF starts = {} THEN NFKD(lower(surname))
        ELSE NFKD(lower(join(split(
                 SubSeq(surname, First(starts, 0), Len(surname))))))

\* every author of the mapping has exactly one row, which shows its email
OneRowPerAuthor ==
    /\ Len(RowsWritten) = Len(valid_authors_dict)
    /\ \A e \in Range(valid_authors_dict) :
          /\ Cardinality({k \in 1..Len(RowsWritten) :
                RowsWritten[k].last_first = e.author.last_first}) = 1
          /\ \E k \in 1..Len(RowsWritten) :
                /\ RowsWritten[k].last_first = e.author.last_first
                /\ RowsWritten[k].email = e.email

\* C4 as stated: one row per author of the mapping, the rows in
\* non-decreasing order of the lower-cased surname taken from its first
\* capitalised word.
C4_RowsInClaimedKeyOrder ==
    pc = "authors_done" =>
        /\ OneRowPerAuthor
        /\ \A k \in 1..(Len(RowsWritten) - 1) :
              StrLeq(KeyAsClaimed(RowsWritten[k].last_first),
                     KeyAsClaimed(RowsWritten[k + 1].last_first))

\* C4 (amended): one row per author of the mapping, the rows in
\* non-decreasing order of that key after NFKD normalisation: an accented
\* letter sorts as its base letter followed by the accent.
C4_RowsInNormalizedKeyOrder ==
    pc = "authors_done" =>
        /\ OneRowPerAuthor
        /\ \A k \in 1..(Len(RowsWritten) - 1) :
              StrLeq(KeyNormalized(RowsWritten[k].last_first),
                     KeyNormalized(RowsWritten[k + 1].last_first))

\* "f É, f" is written before "f": the leading lower-case word is skipped
C4_Witness ==
    /\ pc = "authors_done"
    /\ Len(RowsWritten) = 2
    /\ RowsWritten[1].last_first = <<102, 32, 201, 44, 32, 102>>
    /\ RowsWritten[2].last_first = <<102>>

====
